---- MODULE Spec2Model ----
(***************************************************************************)
(* A model of src/shortener.js: the URL shortener sessions created by      *)
(* shortener(alphabet, protocol, ids), with the five functions a session   *)
(* exposes (shorten, expand, digits, path, nextid).                        *)
(*                                                                         *)
(* JavaScript strings are modelled as sequences of one-character strings,  *)
(* arrays as sequences of integers, and a JavaScript value as a record     *)
(* tagged with its type.  The identifiers of the model stay inside the     *)
(* range in which JavaScript Number arithmetic on integers is exact, so    *)
(* `%', `/' followed by Math.floor, and `++' are integer operations.       *)
(***************************************************************************)
EXTENDS Integers, Sequences, FiniteSets, TLC

(* ------------------------------ bounds --------------------------------- *)

\* Total number of identifiers drawn (by nextid or shorten) over all sessions.
MaxCalls == 3

\* Largest small identifier handed to the exposed digits function.
MaxDigitsArg == 20

\* Longest field built from TestChars in a URL handed to path.
MaxFieldLen == 2

(* ------------------------- setup code (153-163) ------------------------ *)

\* The alphabet of the setup code.
Alnum62 ==
  <<"a", "b", "c", "d", "e", "f", "g", "h", "i", "j", "k", "l", "m",
     "n", "o", "p", "q", "r", "s", "t", "u", "v", "w", "x", "y", "z",
     "A", "B", "C", "D", "E", "F", "G", "H", "I", "J", "K", "L", "M",
     "N", "O", "P", "Q", "R", "S", "T", "U", "V", "W", "X", "Y", "Z",
     "0", "1", "2", "3", "4", "5", "6", "7", "8", "9" >>

\* The alphabets a session is created with: the one of the setup code, a
\* binary one, and one of unique characters that contains the separator.
Alphabets ==
  { Alnum62, << "a", "b" >>, << "a", "/", "b" >> }

\* The protocol and domain of the setup code: 'http://short.ly/'.
protocol ==
  <<"h", "t", "t", "p", ":", "/", "/", "s", "h", "o", "r", "t", ".", "l", "y", "/" >>

\* The starting ID of the setup code.
startID == 4097

\* The seeds a session is created with.
StartIds == { 0, startID }

\* The two sessions the file creates (lines 172 and 188).
Sessions == { 1, 2 }

\* The long URLs given to shorten.
LongUrls ==
  { <<"h", "t", "t", "p", ":", "/", "/", "w", "w", "w", ".", "g", "o", "o", "g", "l", "e", ".", "c", "o", "m" >>,
    <<"h", "t", "t", "p", "s", ":", "/", "/", "n", "o", "d", "e", "j", "s", ".", "o", "r", "g", "/", "e", "n" >> }

(* --------------------------- JavaScript values ------------------------- *)

Undefined == [t |-> "undefined"]
Str(chars) == [t |-> "string", v |-> chars]
Num(n) == [t |-> "number", v |-> n]
Arr(elems) == [t |-> "array", v |-> elems]
TypeError == [t |-> "TypeError"]
NoCall == [t |-> "none"]

VARIABLES
  alphabet,   \* the alphabet both sessions were created with
  seed,       \* seed[s]: the value of the parameter ids at construction
  ids,        \* ids[s]: the captured counter of session s
  urlmap,     \* urlmap[s]: the captured map of session s, key -> long URL
  drawn,      \* drawn[s]: the values nextid returned in session s, in order
  shortened,  \* shortened[s]: the shorten calls of session s, in order
  ret         \* the last call: function, session, argument, outcome

vars == << alphabet, seed, ids, urlmap, drawn, shortened, ret >>

(* ------------------ String.prototype / Array.prototype ----------------- *)

\* The index (from 1) of the first element of str equal to ch, 0 if none.
FirstIndex(str, ch) ==
  IF \E i \in 1..Len(str) : str[i] = ch
    THEN CHOOSE i \in 1..Len(str) :
           str[i] = ch /\ \A j \in 1..(i - 1) : str[j] # ch
    ELSE 0

\* str.split(sep) for a one-character separator: the fields between the
\* separators, in order; a string without separator is its only field.
RECURSIVE split(_, _)
split(str, sep) ==
  LET p == FirstIndex(str, sep)
  IN  IF p = 0
        THEN << str >>
        ELSE << SubSeq(str, 1, p - 1) >> \o split(SubSeq(str, p + 1, Len(str)), sep)

\* alphabet.indexOf(ch): the zero-based index of the first match, -1 if none.
indexOf(str, ch) == FirstIndex(str, ch) - 1

\* alphabet.charAt(i) for a zero-based index i inside the string.
charAt(str, i) == str[i + 1]

\* Array.prototype.reverse.
reverse(arr) == [i \in 1..Len(arr) |-> arr[Len(arr) + 1 - i]]

DecimalChars == << "0", "1", "2", "3", "4", "5", "6", "7", "8", "9" >>

\* Number.prototype.toString of an integer: its decimal digits, with a
\* leading minus sign when it is negative.
RECURSIVE NatToString(_)
NatToString(n) ==
  IF n < 10
    THEN << DecimalChars[n + 1] >>
    ELSE NatToString(n \div 10) \o << DecimalChars[(n % 10) + 1] >>

NumberToString(n) ==
  IF n < 0 THEN << "-" >> \o NatToString(0 - n) ELSE NatToString(n)

\* Array.prototype.toString: the elements joined by commas.  This is the
\* conversion urlmap[id] applies to the array id to get a property name.
RECURSIVE ArrayToString(_)
ArrayToString(arr) ==
  IF Len(arr) = 0 THEN << >>
  ELSE IF Len(arr) = 1 THEN NumberToString(arr[1])
  ELSE NumberToString(arr[1]) \o << "," >> \o ArrayToString(Tail(arr))

(* ----------------------- the functions of a session -------------------- *)

\* A getPath that reads the field of index 2, the host.
getPath_host(url) ==
  LET splitUrl == split(url, "/")
  IN  IF Len(splitUrl) >= 3 THEN Str(splitUrl[3]) ELSE Undefined

\* getPath(url): the field of index 3 of url.split('/'); reading an index
\* past the end of an array gives undefined.
getPath(url) ==
  LET splitUrl == split(url, "/")
  IN  IF Len(splitUrl) >= 4 THEN Str(splitUrl[4]) ELSE Undefined

\* The loop written as while (id > 0) { ... }: no pass for id = 0.
RECURSIVE toDigitsLoop_while(_, _, _)
toDigitsLoop_while(id, alphabetLength, idArray) ==
  IF id > 0
    THEN toDigitsLoop_while(id \div alphabetLength, alphabetLength,
                            Append(idArray, id % alphabetLength))
    ELSE idArray

\* The do-while loop of toDigits: push id % alphabetLength, replace id by
\* Math.floor(id / alphabetLength), repeat while id > 0.
RECURSIVE toDigitsLoop(_, _, _)
toDigitsLoop(id, alphabetLength, idArray) ==
  LET remainder == id % alphabetLength
      pushed    == Append(idArray, remainder)
      next      == id \div alphabetLength
  IN  IF next > 0 THEN toDigitsLoop(next, alphabetLength, pushed) ELSE pushed

\* A toDigits that returns idArray without reversing it.
toDigits_noReverse(alpha, id) == toDigitsLoop(id, Len(alpha), << >>)

\* toDigits(id) in a session whose alphabet is alpha.
toDigits(alpha, id) == reverse(toDigitsLoop(id, Len(alpha), << >>))

\* A loop that puts each character in front of the code.
shortenCode_prepend(alpha, id) ==
  [index \in 1..Len(id) |-> charAt(alpha, id[Len(id) + 1 - index])]

\* The for loop of shorten: the character of the alphabet for each digit.
shortenCode(alpha, id) == [index \in 1..Len(id) |-> charAt(alpha, id[index])]

\* The for loop of expand: the index in the alphabet of each character.
expandId(alpha, path) == [index \in 1..Len(path) |-> indexOf(alpha, path[index])]

\* An assignment that starts from an empty object: only the new property.
SetProperty_fresh(map, key, value) == [k \in { key } |-> value]

\* urlmap[key] = urll on a plain object: adds the property, or replaces its
\* value when the object already has it.
SetProperty(map, key, value) ==
  [k \in (DOMAIN map) \cup { key } |-> IF k = key THEN value ELSE map[k]]

\* urlmap[key] read from a plain object: the value of the property, undefined
\* when there is none.  (The names Object.prototype adds are alphabetic; a
\* key made by ArrayToString holds only digits, commas and minus signs.)
GetProperty(map, key) ==
  IF key \in DOMAIN map THEN Str(map[key]) ELSE Undefined

\* A nextid that returns ++ids: the value after the increment.
nextidValue_pre(s) == ids[s] + 1

\* The value of ids++ in session s: the counter before the increment.
nextidValue(s) == ids[s]

\* A nextid that returns ids and leaves the counter where it is.
nextidIds_stuck(s) == ids

\* The counter after ids++ in session s.
nextidIds(s) == [ids EXCEPT ![s] = @ + 1]

\* A urlmap declared outside shortener: one map written by every session.
shortenUrlmap_shared(s, id, urll) ==
  [x \in Sessions |-> SetProperty(urlmap[x], ArrayToString(id), urll)]

\* The map after urlmap[id] = urll in session s.
shortenUrlmap(s, id, urll) ==
  [urlmap EXCEPT ![s] = SetProperty(@, ArrayToString(id), urll)]

\* What expand(urls) evaluates to in session s: a TypeError when getPath
\* gave undefined (path.length is read from it), else urlmap[id].
expandResult(s, urls) ==
  LET path == getPath(urls)
  IN  IF path.t = "undefined"
        THEN TypeError
        ELSE GetProperty(urlmap[s], ArrayToString(expandId(alphabet, path.v)))

(* ------------------------------ arguments ------------------------------ *)

\* Characters for the fields of test URLs: one of every alphabet and one of
\* no alphabet.
TestChars == { "b", "!" }

\* Codes given to expand whatever shorten returned: the empty code, the
\* separator, and a character of no alphabet, alone and after a character
\* of the alphabet.
TestCodes == { << >>, << "/" >>, << "!" >>, << "b", "!" >> }

\* Every shorten call made so far, in any session.
Shortened == UNION { { shortened[s][i] : i \in 1..Len(shortened[s]) } : s \in Sessions }

\* Strings with fewer than four fields: '', 'bef' and 'http://short.ly'.
FewFields == { << >>, << "b", "e", "f" >>, SubSeq(protocol, 1, Len(protocol) - 1) }

\* The URLs given to expand: the short URLs shorten returned, the
\* same with the character of digit 0 put in front of the code, the same
\* followed by a further field, the example of the documentation, the
\* protocol followed by a test code, and strings with fewer than four fields.
Urls ==
  { e.short : e \in Shortened }
    \cup { protocol \o << alphabet[1] >> \o e.code : e \in Shortened }
    \cup { e.short \o << "/", "x" >> : e \in Shortened }
    \cup { protocol \o << "b", "e", "f" >> }
    \cup { protocol \o c : c \in TestCodes }
    \cup FewFields

\* The identifiers given to digits.
DigitsArgs == (0..MaxDigitsArg) \cup { Len(alphabet), startID, startID + 1 }

\* The URLs given to path: the example of the documentation, alone and
\* followed by further fields, the protocol followed by one or two fields
\* of test characters, and strings with fewer than four fields.
TestFields == UNION { [1..n -> TestChars] : n \in 0..MaxFieldLen }

PathArgs ==
  { protocol \o << "b", "e", "f" >> \o rest :
      rest \in { << >>, << "/" >>, << "/", "x" >>, << "/", "x", "/", "y" >> } }
    \cup { protocol \o f : f \in TestFields }
    \cup { protocol \o f \o << "/" >> \o g : f, g \in TestFields }
    \cup { SubSeq(protocol, 1, n) \o f : n \in { 5, 6, 7 }, f \in TestFields }
    \cup FewFields

\* The number of identifiers drawn so far, over all sessions.
RECURSIVE Total(_, _)
Total(f, S) ==
  IF S = {} THEN 0
  ELSE LET x == CHOOSE y \in S : TRUE IN Len(f[x]) + Total(f, S \ { x })

(* ------------------------------- actions ------------------------------- *)

\* shortener(alphabet, protocol, ids), called once per session with the
\* same arguments (lines 172 and 188): an empty urlmap and the counter at
\* its seed.
Init ==
  /\ alphabet \in Alphabets
  /\ \E n \in StartIds : seed = [s \in Sessions |-> n]
  /\ ids = seed
  /\ urlmap = [s \in Sessions |-> [k \in {} |-> << >>]]
  /\ drawn = [s \in Sessions |-> << >>]
  /\ shortened = [s \in Sessions |-> << >>]
  /\ ret = [op |-> "shortener", sess |-> 0, arg |-> NoCall, out |-> NoCall]

\* s.nextid(): return ids++.
nextid(s) ==
  /\ Total(drawn, Sessions) < MaxCalls
  /\ ids' = nextidIds(s)
  /\ drawn' = [drawn EXCEPT ![s] = Append(@, nextidValue(s))]
  /\ ret' = [op |-> "nextid", sess |-> s, arg |-> NoCall,
             out |-> Num(nextidValue(s))]
  /\ UNCHANGED << alphabet, seed, urlmap, shortened >>

\* s.shorten(urll).
shorten(s, urll) ==
  LET n    == nextidValue(s)
      id   == toDigits(alphabet, n)
      code == shortenCode(alphabet, id)
  IN  /\ Total(drawn, Sessions) < MaxCalls
      /\ ids' = nextidIds(s)
      /\ drawn' = [drawn EXCEPT ![s] = Append(@, n)]
      /\ urlmap' = shortenUrlmap(s, id, urll)
      /\ shortened' = [shortened EXCEPT ![s] =
                         Append(@, [urll |-> urll, n |-> n, id |-> id,
                                    key |-> ArrayToString(id), code |-> code,
                                    short |-> protocol \o code])]
      /\ ret' = [op |-> "shorten", sess |-> s, arg |-> Str(urll),
                 out |-> Str(protocol \o code)]
      /\ UNCHANGED << alphabet, seed >>

\* s.expand(urls).
expand(s, urls) ==
  /\ ret' = [op |-> "expand", sess |-> s, arg |-> Str(urls),
             out |-> expandResult(s, urls)]
  /\ UNCHANGED << alphabet, seed, ids, urlmap, drawn, shortened >>

\* s.path(url).
path(s, url) ==
  /\ ret' = [op |-> "path", sess |-> s, arg |-> Str(url), out |-> getPath(url)]
  /\ UNCHANGED << alphabet, seed, ids, urlmap, drawn, shortened >>

\* s.digits(id).
digits(s, id) ==
  /\ ret' = [op |-> "digits", sess |-> s, arg |-> Num(id),
             out |-> Arr(toDigits(alphabet, id))]
  /\ UNCHANGED << alphabet, seed, ids, urlmap, drawn, shortened >>

\* The calls of the tests (lines 175-204), in any order and on any session.
Next ==
  \E s \in Sessions :
    \/ nextid(s)
    \/ \E urll \in LongUrls : shorten(s, urll)
    \/ \E urls \in Urls : expand(s, urls)
    \/ path(s, protocol \o << "b", "e", "f" >>)
    \/ \E id \in { startID, startID + 1 } : digits(s, id)

Spec == Init /\ [][Next]_vars

\* The two functions that read neither the counter nor the map, applied to
\* the arguments of DigitsArgs and PathArgs.
NextCodec ==
  \E s \in Sessions :
    \/ \E id \in DigitsArgs : digits(s, id)
    \/ \E url \in PathArgs : path(s, url)

SpecCodec == Init /\ [][NextCodec]_vars

(* ------------------------------ properties ----------------------------- *)

\* The shorten calls session s has made so far.
Entries(s) == { shortened[s][i] : i \in 1..Len(shortened[s]) }

Bef == << "b", "e", "f" >>
Beg == << "b", "e", "g" >>

\* C1: when expand is called in a session with a short URL that an earlier
\* shorten(u) of the same session returned, it returns exactly u.
C1_RoundTrip ==
  ret.op = "expand" =>
    \A e \in Entries(ret.sess) :
      e.short = ret.arg.v => ret.out = Str(e.urll)

\* C2: in a session whose identifiers were all drawn by shorten, the k-th
\* shorten returned the protocol followed by one character per digit of
\* toDigits(seed + k - 1), alphabet[d] for digit d, in the same order; from
\* seed 4097 with the 62-character alphabet the first two calls returned
\* 'http://short.ly/bef' and 'http://short.ly/beg'.
C2_KthShorten ==
  \A s \in Sessions :
    Len(drawn[s]) = Len(shortened[s]) =>
      /\ \A k \in 1..Len(shortened[s]) :
           LET ds    == toDigits(alphabet, seed[s] + k - 1)
               short == shortened[s][k].short
           IN  /\ Len(short) = Len(protocol) + Len(ds)
               /\ SubSeq(short, 1, Len(protocol)) = protocol
               /\ \A i \in 1..Len(ds) :
                    short[Len(protocol) + i] = alphabet[ds[i] + 1]
      /\ (alphabet = Alnum62 /\ seed[s] = 4097) =>
           /\ Len(shortened[s]) >= 1 => shortened[s][1].short = protocol \o Bef
           /\ Len(shortened[s]) >= 2 => shortened[s][2].short = protocol \o Beg

C2_Witness ==
  \E s \in Sessions :
    /\ alphabet = Alnum62 /\ seed[s] = 4097
    /\ Len(drawn[s]) = 2 /\ Len(shortened[s]) = 2
    /\ ret = [op |-> "shorten", sess |-> s, arg |-> Str(shortened[s][2].urll),
              out |-> Str(protocol \o Beg)]

\* C3: the values nextid returned in a session seeded with S are S, S + 1,
\* S + 2, ... in that order, and the counter stands one past the last.
C3_NextidSequence ==
  \A s \in Sessions :
    /\ \A i \in 1..Len(drawn[s]) : drawn[s][i] = seed[s] + i - 1
    /\ \A i, j \in 1..Len(drawn[s]) : i < j => drawn[s][i] < drawn[s][j]
    /\ ids[s] = seed[s] + Len(drawn[s])

C3_Witness ==
  \E s \in Sessions :
    /\ Len(shortened[s]) = 0
    /\ Len(drawn[s]) = 3
    /\ ret = [op |-> "nextid", sess |-> s, arg |-> NoCall,
              out |-> Num(seed[s] + 2)]

\* The code of a URL is its field of index 3; a URL with fewer than four
\* fields has none.  A code is known when a shorten of the session made it.
KnownCode(s, url) ==
  LET fields == split(url, "/")
  IN  /\ Len(fields) >= 4
      /\ \E e \in Entries(s) : e.code = fields[4]

\* C4: expand called with a URL whose code no shorten of the session made
\* returns the not-found result undefined: it does not throw, and it does
\* not return a long URL.
C4_UnknownNotFound ==
  (ret.op = "expand" /\ ~KnownCode(ret.sess, ret.arg.v)) => ret.out = Undefined

\* C5: any two shorten calls of a session returned different short URLs and
\* wrote different keys, and the map has one entry per shorten call.
C5_DistinctShortens ==
  \A s \in Sessions :
    /\ \A i, j \in 1..Len(shortened[s]) :
         i # j => /\ shortened[s][i].short # shortened[s][j].short
                  /\ shortened[s][i].key # shortened[s][j].key
    /\ Cardinality(DOMAIN urlmap[s]) = Len(shortened[s])

C5_Witness ==
  \E s \in Sessions :
    /\ Len(shortened[s]) = 2 /\ Len(drawn[s]) = 3
    /\ shortened[s][1].urll = shortened[s][2].urll
    /\ shortened[s][2].n = shortened[s][1].n + 2
    /\ Cardinality(DOMAIN urlmap[s]) = 2

\* The number a most-significant-first digit sequence denotes in a radix.
RECURSIVE toDigitsToId(_, _)
toDigitsToId(ds, radix) ==
  IF Len(ds) = 0 THEN 0
  ELSE toDigitsToId(SubSeq(ds, 1, Len(ds) - 1), radix) * radix + ds[Len(ds)]

\* C6: the digits toDigits(id) returned, read as a number in the radix of
\* the alphabet, most significant digit first, are id.
C6_DigitsRoundTrip ==
  ret.op = "digits" => toDigitsToId(ret.out.v, Len(alphabet)) = ret.arg.v

C6_Witness ==
  /\ alphabet = Alnum62
  /\ ret.op = "digits" /\ ret.arg = Num(4097) /\ ret.out = Arr(<< 1, 4, 5 >>)

\* C7: toDigits(id) is not empty, each of its elements is in 0..radix-1,
\* its first element is not 0 unless id = 0, toDigits(0) = [0] and
\* toDigits(radix) = [1, 0].
C7_Canonical ==
  ret.op = "digits" =>
    LET ds == ret.out.v
        id == ret.arg.v
    IN  /\ Len(ds) >= 1
        /\ \A i \in 1..Len(ds) : ds[i] \in 0..(Len(alphabet) - 1)
        /\ id # 0 => ds[1] # 0
        /\ id = 0 => ds = << 0 >>
        /\ id = Len(alphabet) => ds = << 1, 0 >>

C7_Witness ==
  ret.op = "digits" /\ ret.arg = Num(0) /\ ret.out = Arr(<< 0 >>)

\* The positions of the separator in url, and the characters between the
\* third separator and the next one (or the end of url).
Slashes(url) == { i \in 1..Len(url) : url[i] = "/" }

ThirdSlash(url) ==
  CHOOSE i \in Slashes(url) : Cardinality({ j \in Slashes(url) : j < i }) = 2

AfterThirdSlash(url) ==
  LET from  == ThirdSlash(url) + 1
      later == { j \in Slashes(url) : j >= from }
      to    == IF later = {} THEN Len(url)
               ELSE (CHOOSE j \in later : \A k \in later : j <= k) - 1
  IN  SubSeq(url, from, to)

\* C9: path(url) returns the characters between the third separator of url
\* and the next separator or the end of url, and undefined when url has
\* fewer than four fields (fewer than three separators);
\* path('http://short.ly/bef') is 'bef'.
C9_PathField ==
  ret.op = "path" =>
    LET url == ret.arg.v
    IN  /\ Cardinality(Slashes(url)) >= 3 => ret.out = Str(AfterThirdSlash(url))
        /\ Cardinality(Slashes(url)) < 3 => ret.out = Undefined
        /\ url = protocol \o Bef => ret.out = Str(Bef)

C9_Witness ==
  /\ ret.op = "path"
  /\ ret.arg = Str(protocol \o Bef \o << "/", "x", "/", "y" >>)
  /\ ret.out = Str(Bef)

\* C8: a call on one session leaves the counter, the map and the expand
\* results of every other session as they were; the first identifier a
\* session issues is its seed, whatever the other session drew before; and
\* an expand that finds a long URL finds one that a shorten of the same
\* session stored under the key it looks up.
C8_Step ==
  \A s \in Sessions :
    ret'.sess # s =>
      /\ ids'[s] = ids[s]
      /\ urlmap'[s] = urlmap[s]
      /\ drawn'[s] = drawn[s]
      /\ \A e \in Shortened :
           GetProperty(urlmap'[s], e.key) = GetProperty(urlmap[s], e.key)

C8_State ==
  /\ \A s \in Sessions : Len(drawn[s]) >= 1 => drawn[s][1] = seed[s]
  /\ (ret.op = "expand" /\ ret.out.t = "string") =>
       \E e \in Entries(ret.sess) :
         /\ ret.out = Str(e.urll)
         /\ KnownCode(ret.sess, ret.arg.v)
         /\ e.code = split(ret.arg.v, "/")[4]

C8_Independent == [][C8_Step]_vars /\ []C8_State

C8_Witness ==
  /\ Len(drawn[1]) = 2 /\ Len(drawn[2]) = 1
  /\ drawn[2][1] = seed[2] /\ seed[2] = seed[1]
  /\ ret.op = "expand" /\ ret.sess = 2 /\ ret.out = Undefined
  /\ \E e \in Entries(1) : e.short = ret.arg.v

\* C10: expand, path and digits change neither a counter nor a map; nextid
\* adds 1 to the counter of its session and changes no map; shorten adds 1
\* to the counter of its session and one entry to its map, keeping every
\* entry the map had, key and value.
C10_Step ==
  LET s == ret'.sess
  IN  /\ ret'.op \in { "expand", "path", "digits" } =>
           ids' = ids /\ urlmap' = urlmap
      /\ ret'.op = "nextid" =>
           ids' = [ids EXCEPT ![s] = ids[s] + 1] /\ urlmap' = urlmap
      /\ ret'.op = "shorten" =>
           /\ ids' = [ids EXCEPT ![s] = ids[s] + 1]
           /\ \A x \in Sessions \ { s } : urlmap'[x] = urlmap[x]
           /\ DOMAIN urlmap[s] \subseteq DOMAIN urlmap'[s]
           /\ Cardinality(DOMAIN urlmap'[s]) = Cardinality(DOMAIN urlmap[s]) + 1
           /\ \A k \in DOMAIN urlmap[s] : urlmap'[s][k] = urlmap[s][k]

C10_Frame == [][C10_Step]_vars

C10_Witness ==
  /\ ret.op = "shorten"
  /\ Len(shortened[ret.sess]) = 2
  /\ Cardinality(DOMAIN urlmap[ret.sess]) = 2
  /\ urlmap[ret.sess][shortened[ret.sess][1].key] = shortened[ret.sess][1].urll
  /\ shortened[ret.sess][1].urll # shortened[ret.sess][2].urll

====
